---- MODULE Spec2Model ----
(***************************************************************************)
(* Model of tower-http's set_host middleware (src/tower-http/src/          *)
(* set_host.rs): SetHost<S> wraps an inner Service S, inserts a Host       *)
(* header derived from the request URI when the request has none, and      *)
(* forwards poll_ready / call to the inner service.                        *)
(***************************************************************************)
EXTENDS Integers, Sequences, FiniteSets, TLC

\* Largest number of Host values a request carries on entry (a HeaderMap is
\* a multimap: one name may hold several values).
MaxHostValues == 1

-----------------------------------------------------------------------------
(* Inputs: the requests the caller may pass to SetHost::call.              *)

\* Option<T>: None is the empty sequence, Some(x) the sequence holding x.
None == <<>>
Some(x) == <<x>>
Unwrap(o) == o[1]
Options(S) == {None} \cup { Some(x) : x \in S }

\* Schemes as uri.scheme_str() reports them: the text of the scheme as
\* stored in the Uri, letter case included.
Schemes == {"http", "https", "ws", "wss", "ftp", "WSS", "HTTPS"}

Hosts == {"example.org"}

\* Explicit ports, as port.as_u16() reports them.
Ports == {80, 443, 8080, 8443}

\* A Uri has a scheme or a port only together with an authority, and an
\* authority always has a host.
UrisOver(schemes, ports) ==
    { u \in [scheme : Options(schemes), host : Options(Hosts),
             port : Options(ports)] :
        u.host = None => (u.scheme = None /\ u.port = None) }

Uris == UrisOver(Schemes, Ports)

HOST == "host"
ACCEPT == "accept"

\* Host values a caller may have set before the middleware runs.
CallerHostValues == {"", "custom.internal"}

RECURSIVE SeqsUpTo(_, _)
SeqsUpTo(S, n) ==
    IF n = 0 THEN {<<>>}
    ELSE LET shorter == SeqsUpTo(S, n - 1)
         IN  shorter \cup { Append(s, v) : s \in shorter, v \in S }

\* The header collection of a request: for each header name the sequence of
\* its values, the empty sequence meaning the header is absent.
HeaderMaps ==
    { [n \in {HOST, ACCEPT} |-> IF n = HOST THEN h ELSE <<"*/*">>] :
        h \in SeqsUpTo(CallerHostValues, MaxHostValues) }

Methods == {"GET", "POST"}

Requests == [method : Methods, uri : Uris, headers : HeaderMaps,
             body : {"payload"}]

\* The requests sent when an earlier call is remembered and compared with
\* later ones.
TrackedRequests ==
    [method : Methods, uri : UrisOver({"http", "https"}, {80, 443}),
     headers : HeaderMaps, body : {"payload"}]

\* What the inner service's poll_ready may answer.
PollOutcomes == {"Ready(Ok)", "Ready(Err)", "Pending"}

\* What the future returned by the inner service's call resolves to.
InnerResults == {"Ok(response)", "Err(inner)"}

-----------------------------------------------------------------------------
(* State.                                                                  *)

VARIABLES
    cur,    \* trace of the latest SetHost::call
    seen,   \* an earlier SetHost::call that reached the inner service
    ready   \* trace of the latest SetHost::poll_ready

vars == <<cur, seen, ready>>

NoCall == [outcome |-> "none", delivered |-> <<>>, inner |-> <<>>,
           returned |-> <<>>]
NoSeen == [known |-> FALSE]
NoPoll == [polled |-> FALSE]

-----------------------------------------------------------------------------
(* The Host resolver.                                                      *)

is_schema_secure(uri) ==
    IF uri.scheme = None THEN FALSE
    ELSE Unwrap(uri.scheme) \in {"wss", "https"}

\* Variant: no default port is recognised.
get_non_default_port_keep_all(uri) == uri.port

\* Variant: 80 and 443 are dropped whatever the scheme.
get_non_default_port_any_scheme(uri) ==
    IF uri.port \in {Some(80), Some(443)} THEN None ELSE uri.port

get_non_default_port(uri) ==
    CASE uri.port = Some(443) /\ is_schema_secure(uri)  -> None
      [] uri.port = Some(80) /\ ~is_schema_secure(uri)  -> None
      [] OTHER                                          -> uri.port

Digit(d) == <<"0", "1", "2", "3", "4", "5", "6", "7", "8", "9">>[d + 1]

\* Display of a Port prints its u16 in decimal.
RECURSIVE FormatU16(_)
FormatU16(n) ==
    IF n < 10 THEN Digit(n)
    ELSE FormatU16(n \div 10) \o Digit(n % 10)

\* Variant: a missing host defaults to the empty string instead of panicking.
HostHeaderValue_or_default(uri) ==
    LET hostname == IF uri.host = None THEN "" ELSE Unwrap(uri.host)
        port == get_non_default_port(uri)
    IN  IF port # None
        THEN [panicked |-> FALSE,
              value |-> hostname \o ":" \o FormatU16(Unwrap(port))]
        ELSE [panicked |-> FALSE, value |-> hostname]

\* The closure given to or_insert_with: the Host value for uri, or a panic
\* when uri.host() is None.
HostHeaderValue(uri) ==
    IF uri.host = None
    THEN [panicked |-> TRUE, value |-> ""]
    ELSE LET port == get_non_default_port(uri)
         IN  IF port # None
             THEN [panicked |-> FALSE,
                   value |-> Unwrap(uri.host) \o ":"
                               \o FormatU16(Unwrap(port))]
             ELSE [panicked |-> FALSE, value |-> Unwrap(uri.host)]

\* Variant: insert, replacing whatever Host the request carried.
or_insert_with_overwrite(headers, uri) ==
    LET v == HostHeaderValue(uri)
    IN  IF v.panicked
        THEN [panicked |-> TRUE, headers |-> headers]
        ELSE [panicked |-> FALSE,
              headers |-> [headers EXCEPT ![HOST] = <<v.value>>]]

\* Variant: the vacant entry is left vacant.
or_insert_with_nothing(headers, uri) ==
    [panicked |-> FALSE, headers |-> headers]

\* Variant: the header collection is rebuilt with the Host header alone.
or_insert_with_rebuilt(headers, uri) ==
    LET v == HostHeaderValue(uri)
    IN  IF headers[HOST] = <<>> /\ v.panicked
        THEN [panicked |-> TRUE, headers |-> headers]
        ELSE [panicked |-> FALSE,
              headers |-> [n \in DOMAIN headers |->
                             IF n # HOST THEN <<>>
                             ELSE IF headers[HOST] # <<>> THEN headers[HOST]
                             ELSE <<v.value>>]]

\* req.headers_mut().entry(HOST).or_insert_with(closure): the closure runs
\* only when the entry is vacant.
or_insert_with(headers, uri) ==
    IF headers[HOST] # <<>>
    THEN [panicked |-> FALSE, headers |-> headers]
    ELSE LET v == HostHeaderValue(uri)
         IN  IF v.panicked
             THEN [panicked |-> TRUE, headers |-> headers]
             ELSE [panicked |-> FALSE,
                   headers |-> [headers EXCEPT ![HOST] = <<v.value>>]]

-----------------------------------------------------------------------------
(* The middleware.                                                         *)

Init ==
    /\ cur = NoCall
    /\ seen = NoSeen
    /\ ready = NoPoll

\* Variant: the middleware answers Ready without asking the inner service.
poll_ready_always_ready ==
    /\ ready' = [polled |-> TRUE, inner |-> <<>>, returned |-> "Ready(Ok)"]
    /\ UNCHANGED <<cur, seen>>

\* SetHost::poll_ready: self.inner.poll_ready(cx).
poll_ready ==
    /\ \E outcome \in PollOutcomes :
          ready' = [polled |-> TRUE, inner |-> <<outcome>>,
                    returned |-> outcome]
    /\ UNCHANGED <<cur, seen>>

\* What a finished call leaves to remember: its entry headers and URI and
\* the Host values the inner service received.
Remembered(c) ==
    IF c.outcome = "returned"
    THEN {[known |-> TRUE, headers |-> c.req.headers, uri |-> c.req.uri,
           host |-> c.delivered[1].headers[HOST]]}
    ELSE {}

\* Variant: the inner service's failure is replaced by one of the
\* middleware's own.
call_own_error(req) ==
    /\ LET uri == req.uri
           e == or_insert_with(req.headers, uri)
       IN  IF e.panicked
           THEN cur' = [outcome |-> "panicked", req |-> req,
                        delivered |-> <<>>, inner |-> <<>>,
                        returned |-> <<>>]
           ELSE \E result \in InnerResults :
                  cur' = [outcome |-> "returned", req |-> req,
                          delivered |-> <<[req EXCEPT !.headers = e.headers]>>,
                          inner |-> <<result>>,
                          returned |-> IF result = "Err(inner)"
                                       THEN <<"Err(set_host)">>
                                       ELSE <<result>>]
    /\ UNCHANGED ready

\* Variant: the URI is kept in the middleware between calls, so a call
\* resolves the Host from the URI of the call before it.
call_stale_uri(req) ==
    /\ LET uri == IF cur.outcome = "none" THEN req.uri ELSE cur.req.uri
           e == or_insert_with(req.headers, uri)
       IN  IF e.panicked
           THEN cur' = [outcome |-> "panicked", req |-> req,
                        delivered |-> <<>>, inner |-> <<>>,
                        returned |-> <<>>]
           ELSE \E result \in InnerResults :
                  cur' = [outcome |-> "returned", req |-> req,
                          delivered |-> <<[req EXCEPT !.headers = e.headers]>>,
                          inner |-> <<result>>,
                          returned |-> <<result>>]
    /\ UNCHANGED ready

\* SetHost::call.
call(req) ==
    /\ LET uri == req.uri
           e == or_insert_with(req.headers, uri)
       IN  IF e.panicked
           THEN cur' = [outcome |-> "panicked", req |-> req,
                        delivered |-> <<>>, inner |-> <<>>,
                        returned |-> <<>>]
           ELSE \E result \in InnerResults :
                  cur' = [outcome |-> "returned", req |-> req,
                          delivered |-> <<[req EXCEPT !.headers = e.headers]>>,
                          inner |-> <<result>>,
                          returned |-> <<result>>]
    /\ UNCHANGED ready

Handle == \E req \in Requests : call(req) /\ UNCHANGED seen

Next == poll_ready \/ Handle

Spec == Init /\ [][Next]_vars

\* The same operations, with an earlier call kept for comparison.
HandleTracked ==
    \E req \in TrackedRequests :
        call(req) /\ seen' \in {seen} \cup Remembered(cur)

NextTracked == poll_ready \/ HandleTracked

SpecTracked == Init /\ [][NextTracked]_vars

-----------------------------------------------------------------------------
(* Properties.                                                             *)

Called == cur.outcome # "none"
Returned == cur.outcome = "returned"
HostAbsentOnEntry == cur.req.headers[HOST] = <<>>
DeliveredHost == cur.delivered[1].headers[HOST]

\* The secure schemes as the specification names them.
SecureNames == {"https", "wss"}

\* ASCII lower-casing of the scheme spellings in Schemes.
LowerCased(scheme) ==
    CASE scheme = "WSS"   -> "wss"
      [] scheme = "HTTPS" -> "https"
      [] OTHER            -> scheme

\* The scheme is spelled exactly as a secure name.
SpelledSecure(uri) ==
    uri.scheme # None /\ Unwrap(uri.scheme) \in SecureNames

\* The scheme is a secure name when letter case is ignored.
SecureIgnoringCase(uri) ==
    uri.scheme # None /\ LowerCased(Unwrap(uri.scheme)) \in SecureNames

\* C1: a request that enters call with a Host header reaches the inner
\* service, and with exactly the Host values it entered with, whatever its
\* URI.
C1_PresentHostKept ==
    (Called /\ ~HostAbsentOnEntry) =>
        /\ Returned
        /\ Len(cur.delivered) = 1
        /\ DeliveredHost = cur.req.headers[HOST]

C1_Witness ==
    /\ Returned
    /\ cur.req.headers[HOST] = <<"">>
    /\ cur.req.uri.host = None
    /\ DeliveredHost = <<"">>

\* C2: every request the inner service receives carries a Host header.
C2_DeliveredHasHost ==
    \A i \in 1..Len(cur.delivered) : cur.delivered[i].headers[HOST] # <<>>

C2_Witness ==
    /\ Returned
    /\ HostAbsentOnEntry
    /\ DeliveredHost = <<"example.org">>
    /\ cur.req.uri.scheme = Some("https")

C5_SecureIgnoresCase ==
    Called =>
        /\ is_schema_secure(cur.req.uri) <=> SecureIgnoringCase(cur.req.uri)
        /\ (Returned /\ HostAbsentOnEntry /\ SecureIgnoringCase(cur.req.uri)
              /\ cur.req.uri.port = Some(443))
            => DeliveredHost = <<Unwrap(cur.req.uri.host)>>

\* C6: a poll_ready of the middleware polls the inner service exactly once
\* and answers what the inner service answered, whatever happened before.
C6_ReadinessPassThrough ==
    ready.polled =>
        /\ Len(ready.inner) = 1
        /\ ready.returned = ready.inner[1]

C6_Witness ==
    /\ ready.polled
    /\ ready.inner = <<"Pending">>
    /\ ready.returned = "Pending"
    /\ Returned

\* C7: a call that does not panic invokes the inner service exactly once,
\* with the request as it is after the Host decision, and returns exactly
\* what the inner service returned.
C7_ResultVerbatim ==
    Returned =>
        /\ Len(cur.delivered) = 1
        /\ Len(cur.inner) = 1
        /\ cur.inner[1] \in InnerResults
        /\ cur.returned = cur.inner
        /\ DeliveredHost # <<>>

C7_Witness ==
    /\ Returned
    /\ cur.inner = <<"Err(inner)">>
    /\ cur.returned = <<"Err(inner)">>
    /\ HostAbsentOnEntry

\* C8: a call with no Host header and no host in the URI panics: nothing is
\* returned, the inner service is not invoked and no Host is delivered.
C8_MissingHostPanics ==
    (Called /\ HostAbsentOnEntry /\ cur.req.uri.host = None) =>
        /\ cur.outcome = "panicked"
        /\ cur.delivered = <<>>
        /\ cur.inner = <<>>
        /\ cur.returned = <<>>

C8_Witness ==
    /\ cur.outcome = "panicked"
    /\ HostAbsentOnEntry
    /\ cur.req.uri.host = None

\* C9: two calls with the same entry headers and the same URI deliver the
\* same Host to the inner service, whatever calls and polls came before or
\* between them.
C9_Stateless ==
    (Returned /\ seen.known /\ seen.headers = cur.req.headers
       /\ seen.uri = cur.req.uri) =>
        DeliveredHost = seen.host

C9_Witness ==
    /\ Returned
    /\ seen.known
    /\ seen.headers = cur.req.headers
    /\ seen.uri = cur.req.uri
    /\ HostAbsentOnEntry
    /\ seen.host = <<"example.org:80">>
    /\ ready.polled

\* C10: the request the inner service receives has the method, URI, body
\* and every header but Host of the request that entered call, and exactly
\* one Host value when it entered with none.
C10_OnlyHostChanges ==
    Returned =>
        LET d == cur.delivered[1]
        IN  /\ d.method = cur.req.method
            /\ d.uri = cur.req.uri
            /\ d.body = cur.req.body
            /\ DOMAIN d.headers = DOMAIN cur.req.headers
            /\ \A n \in DOMAIN d.headers \ {HOST} :
                  d.headers[n] = cur.req.headers[n]
            /\ HostAbsentOnEntry => Len(d.headers[HOST]) = 1
            /\ ~HostAbsentOnEntry => d.headers[HOST] = cur.req.headers[HOST]

C10_Witness ==
    /\ Returned
    /\ HostAbsentOnEntry
    /\ cur.req.method = "POST"
    /\ cur.delivered[1].headers[ACCEPT] = <<"*/*">>
    /\ Len(DeliveredHost) = 1

====
